---- MODULE Spec2Model ----
(***************************************************************************)
(* VehicleManager of hyundai_kia_connect_api: the facade that selects a    *)
(* backend client by region and brand, keeps the vehicle registry, applies *)
(* the cached / forced refresh policy, re-authenticates on token expiry    *)
(* and forwards the commands to the backend.                               *)
(*                                                                         *)
(* Every public method of the class is one action.  The backend client is  *)
(* an external collaborator: each of its calls either succeeds or raises,  *)
(* chosen by the environment.  The Manager is synchronous and has one      *)
(* caller: a method runs from call to return in one step, and op, calls    *)
(* and ret show the caller the method it called, the backend calls that    *)
(* method made (in order) and what it returned or raised, until the caller *)
(* takes the result (Return) and is free to make its next call.            *)
(***************************************************************************)
EXTENDS Integers, Sequences, FiniteSets, TLC

(* ---------------------------------------------------------------- bounds *)
\* The clock runs over 0..MaxTime.
MaxTime == 1
\* initialize() is not called when the registry would grow beyond this.
MaxRegistry == 2

\* Identifiers of the vehicles of the backend account.
VehicleIds == {"v1", "v2"}
\* Arguments the caller passes to the commands.
ClimateOptions == {"opt1", "opt2"}
ChargeLimits == {<<80, 90>>, <<100, 50>>}
ActionIds == {"a1", "a2"}
\* force_refresh_interval arguments, in seconds.
RefreshIntervals == {0, 1}
\* What a backend command returns (an action handle) or that it raises.
BackendError == "BackendError"
BackendResults == {"h1", BackendError}

(* ------------------------------------------------------------- constants *)
REGION_EUROPE == "Europe"
REGION_CANADA == "Canada"
REGION_USA == "USA"
BRAND_KIA == "Kia"
BRAND_HYUNDAI == "Hyundai"
BRAND_GENESIS == "Genesis"
REGIONS == (1 :> REGION_EUROPE) @@ (2 :> REGION_CANADA) @@ (3 :> REGION_USA)
BRANDS == (1 :> BRAND_KIA) @@ (2 :> BRAND_HYUNDAI) @@ (3 :> BRAND_GENESIS)
LOCK == "VEHICLE_LOCK_ACTION.LOCK"
UNLOCK == "VEHICLE_LOCK_ACTION.UNLOCK"
OPEN == "CHARGE_PORT_ACTION.OPEN"
CLOSE == "CHARGE_PORT_ACTION.CLOSE"

\* The credentials the Manager was constructed with.
username == "user"
password == "secret"
pin == "1234"

VARIABLES
    region, brand,              \* self.region, self.brand
    geocode_api_enable,         \* self.geocode_api_enable
    geocode_api_use_email,      \* self.geocode_api_use_email
    api,                        \* self.api: the backend client, or "None"
    vehicles,                   \* self.vehicles: the registry
    token,                      \* self.api.token
    now,                        \* the UTC clock
    op,                         \* the method just called, with its arguments
    calls,                      \* the backend calls that method made, in order
    ret                         \* what it returned or raised

vars == <<region, brand, geocode_api_enable, geocode_api_use_email, api,
          vehicles, token, now, op, calls, ret>>
config == <<region, brand, geocode_api_enable, geocode_api_use_email, api>>

(* ------------------------------------------------------------ data model *)
\* Token: None, or a token with its expiry.
NoToken == [is_none |-> TRUE, valid_until |-> 0]
Token(valid_until) == [is_none |-> FALSE, valid_until |-> valid_until]

\* A Vehicle as get_vehicles() returns it.
Vehicle(id) == [id |-> id, last_updated_at |-> 0]

\* One call of a backend method: the registry position of the vehicle passed
\* (0 when none is), the other arguments, the exception the backend raised
\* ("None" when it returned) and the value it returned.
Call(fn, veh, args, exc, val) ==
    [fn |-> fn, veh |-> veh, args |-> args, exc |-> exc, val |-> val]

\* A backend call raises (ok false) or returns.
Outcome(ok) == IF ok THEN "None" ELSE BackendError

(* ------------------------------------------------------ backend selector *)
\* The two USA rows with their clients exchanged.
get_implementation_usa_rows_exchanged(r, b) ==
    IF REGIONS[r] = REGION_CANADA THEN "KiaUvoApiCA"
    ELSE IF REGIONS[r] = REGION_EUROPE THEN "KiaUvoApiEU"
    ELSE IF REGIONS[r] = REGION_USA /\ BRANDS[b] = BRAND_HYUNDAI
        THEN "KiaUvoAPIUSA"
    ELSE IF REGIONS[r] = REGION_USA /\ BRANDS[b] = BRAND_KIA
        THEN "HyundaiBlueLinkAPIUSA"
    ELSE "None"

get_implementation_by_region_brand(r, b) ==
    IF REGIONS[r] = REGION_CANADA THEN "KiaUvoApiCA"
    ELSE IF REGIONS[r] = REGION_EUROPE THEN "KiaUvoApiEU"
    ELSE IF REGIONS[r] = REGION_USA /\ BRANDS[b] = BRAND_HYUNDAI
        THEN "HyundaiBlueLinkAPIUSA"
    ELSE IF REGIONS[r] = REGION_USA /\ BRANDS[b] = BRAND_KIA
        THEN "KiaUvoAPIUSA"
    ELSE "None"

(* ------------------------------------------------ the frame of one method *)
\* The Manager's mutable state while a method runs: the registry, the
\* backend's token, the backend calls made so far and the exception raised.
Start == [vehicles |-> vehicles, token |-> token, calls |-> <<>>, exc |-> "None"]

Raise(st, exc) == [st EXCEPT !.exc = exc]

\* self.api.<fn>(...): AttributeError when self.api is None, else the call
\* is made and raises when the backend does.
BackendCall(st, fn, veh, args, exc, val) ==
    IF api = "None" THEN Raise(st, "AttributeError")
    ELSE [st EXCEPT !.calls = Append(@, Call(fn, veh, args, exc,
                                             IF exc = "None" THEN val ELSE "None")),
                    !.exc = exc]

(* ------------------------------------------------------------------ lookup *)
\* The registry position get_vehicle returns, 0 for VehicleNotFoundError.
RECURSIVE get_vehicle_from(_, _, _)
get_vehicle_from(vs, vehicle_id, i) ==
    IF i > Len(vs) THEN 0
    ELSE IF vs[i].id = vehicle_id THEN i
    ELSE get_vehicle_from(vs, vehicle_id, i + 1)

\* The scan without the early return: the last match wins.
RECURSIVE get_vehicle_last_from(_, _, _, _)
get_vehicle_last_from(vs, vehicle_id, i, found) ==
    IF i > Len(vs) THEN found
    ELSE get_vehicle_last_from(vs, vehicle_id, i + 1,
                               IF vs[i].id = vehicle_id THEN i ELSE found)

get_vehicle_last(vs, vehicle_id) == get_vehicle_last_from(vs, vehicle_id, 1, 0)

get_vehicle(vs, vehicle_id) == get_vehicle_from(vs, vehicle_id, 1)

(* ----------------------------------------------------------------- refresh *)
\* What the backend does during one pass over n vehicles: the position whose
\* call raises (0: none), whether it is the geocode call that raises, and
\* whether the cached state it serves carries a new timestamp.
PassInputs(n) ==
    { b \in [fail : 0..n, failGeo : BOOLEAN, fresh : BOOLEAN] :
        b.failGeo => (b.fail > 0 /\ geocode_api_enable) }

NoPass == [fail |-> 0, failGeo |-> FALSE, fresh |-> FALSE]

\* Lines 65-68 without the test of line 67: the geocode update is made
\* whether or not geocoding is enabled.
update_vehicle_always_geocoded(st, i, b) ==
    LET s1 == BackendCall(st, "update_vehicle_with_cached_state", i, <<>>,
                          Outcome(~(b.fail = i /\ ~b.failGeo)), "None")
    IN  IF s1.exc # "None" THEN s1
        ELSE BackendCall(s1, "update_geocoded_location", i,
                         <<geocode_api_use_email>>, Outcome(b.fail # i), "None")

update_vehicle_with_cached_state(st, i, b) ==
    LET updFails == b.fail = i /\ ~b.failGeo
        s1 == BackendCall(st, "update_vehicle_with_cached_state", i, <<>>,
                          Outcome(~updFails), "None")
        s2 == IF s1.exc = "None" /\ b.fresh
              THEN [s1 EXCEPT !.vehicles[i].last_updated_at = now]
              ELSE s1
    IN  IF s2.exc # "None" THEN s2
        ELSE IF geocode_api_enable = TRUE
        THEN BackendCall(s2, "update_geocoded_location", i,
                         <<geocode_api_use_email>>, Outcome(b.fail # i), "None")
        ELSE s2

force_refresh_vehicle_state(st, i, b) ==
    LET s1 == BackendCall(st, "force_refresh_vehicle_state", i, <<>>,
                          Outcome(~(b.fail = i /\ ~b.failGeo)), "None")
    IN  IF s1.exc = "None"
        THEN [s1 EXCEPT !.vehicles[i].last_updated_at = now]
        ELSE s1

\* Lines 61-63 with the error of one vehicle swallowed: the loop goes on to
\* the next entry.
RECURSIVE update_all_keep_going_from(_, _, _)
update_all_keep_going_from(st, i, b) ==
    IF i > Len(st.vehicles) THEN st
    ELSE update_all_keep_going_from(
            update_vehicle_with_cached_state(st, i, b), i + 1, b)

RECURSIVE update_all_from(_, _, _)
update_all_from(st, i, b) ==
    IF i > Len(st.vehicles) \/ st.exc # "None" THEN st
    ELSE update_all_from(update_vehicle_with_cached_state(st, i, b), i + 1, b)

update_all_vehicles_with_cached_state(st, b) == update_all_from(st, 1, b)

RECURSIVE force_refresh_all_from(_, _, _)
force_refresh_all_from(st, i, b) ==
    IF i > Len(st.vehicles) \/ st.exc # "None" THEN st
    ELSE force_refresh_all_from(force_refresh_vehicle_state(st, i, b), i + 1, b)

\* Lines 84-86 with the first entry of the registry left out.
force_refresh_all_but_first(st, b) == force_refresh_all_from(st, 2, b)

force_refresh_all_vehicles_states(st, b) == force_refresh_all_from(st, 1, b)

\* Lines 77-79 with >= for >: a vehicle exactly as old as the interval is
\* force-refreshed.
IsStaleInclusive(started_at_utc, vehicle, force_refresh_interval) ==
    started_at_utc - vehicle.last_updated_at >= force_refresh_interval

\* The test of line 77-79 for one vehicle.
IsStale(started_at_utc, vehicle, force_refresh_interval) ==
    started_at_utc - vehicle.last_updated_at > force_refresh_interval

RECURSIVE check_and_force_from(_, _, _, _, _)
check_and_force_from(st, i, started_at_utc, force_refresh_interval, b) ==
    IF i > Len(st.vehicles) \/ st.exc # "None" THEN st
    ELSE check_and_force_from(
            IF IsStale(started_at_utc, st.vehicles[i], force_refresh_interval)
            THEN force_refresh_vehicle_state(st, i, b)
            ELSE update_vehicle_with_cached_state(st, i, b),
            i + 1, started_at_utc, force_refresh_interval, b)

check_and_force_update_vehicles(st, force_refresh_interval, b) ==
    check_and_force_from(st, 1, now, force_refresh_interval, b)

(* ------------------------------------------------- login and initialization *)
\* What the backend answers to a login: it raises, or it installs a token
\* that is valid until the next tick of the clock.
NoLogin == [ok |-> FALSE, valid_until |-> 0]
LoginOutcomes ==
    {NoLogin}
    \cup {[ok |-> TRUE, valid_until |-> e] : e \in {now + 1}}

\* The vehicle lists get_vehicles() can return: no identifier repeated, at
\* most n vehicles.
Fleets(n) ==
    {<<>>}
    \cup (IF n >= 1 THEN {<<Vehicle(a)>> : a \in VehicleIds} ELSE {})
    \cup (IF n >= 2
          THEN {<<Vehicle(p[1]), Vehicle(p[2])>> :
                    p \in {q \in VehicleIds \X VehicleIds : q[1] # q[2]}}
          ELSE {})

\* self.api.login(...): on success the backend holds the new token.
api_login(st, args, outcome) ==
    LET s1 == BackendCall(st, "login", 0, args, Outcome(outcome.ok), "None")
    IN  IF s1.exc = "None" THEN [s1 EXCEPT !.token = Token(outcome.valid_until)]
        ELSE s1

\* b: the login outcome, whether get_vehicles raises, the list it returns,
\* and the backend's behaviour during the refresh pass.
InitializeInput(login, fleetOk, fleet, pass) ==
    [login |-> login, fleetOk |-> fleetOk, fleet |-> fleet, pass |-> pass]

\* Lines 51-52 with the vehicles put in front of the registry.
prepend_vehicles(registry, returned) == returned \o registry

\* Lines 51-52: every vehicle returned is appended, in the order returned.
append_vehicles(registry, returned) == registry \o returned

\* initialize() with the error of login swallowed: the vehicle list is
\* fetched all the same.
initialize_ignoring_login_error(st, b) ==
    LET s1 == api_login(st, <<username, password, pin>>, b.login)
        s2 == BackendCall(s1, "get_vehicles", 0, <<>>, Outcome(b.fleetOk), b.fleet)
        s3 == IF s2.exc # "None" THEN s2
              ELSE [s2 EXCEPT !.vehicles = append_vehicles(@, b.fleet)]
    IN  IF s3.exc # "None" THEN s3
        ELSE update_all_vehicles_with_cached_state(s3, b.pass)

initialize(st, b) ==
    LET s1 == api_login(st, <<username, password, pin>>, b.login)
        s2 == IF s1.exc # "None" THEN s1
              ELSE BackendCall(s1, "get_vehicles", 0, <<>>,
                               Outcome(b.fleetOk), b.fleet)
        s3 == IF s2.exc # "None" THEN s2
              ELSE [s2 EXCEPT !.vehicles = append_vehicles(@, b.fleet)]
    IN  IF s3.exc # "None" THEN s3
        ELSE update_all_vehicles_with_cached_state(s3, b.pass)

(* ---------------------------------------------------------- token lifecycle *)
\* Line 94 with < for <=: a token that expires now still counts as valid.
TokenExpiredStrict(t, utcnow) == t.valid_until < utcnow

\* Line 94 with the comparison turned round: a valid token counts as expired.
TokenExpiredInverted(t, utcnow) == t.valid_until >= utcnow

\* The test of line 94.
TokenExpired(t, utcnow) == t.valid_until <= utcnow

\* Lines 91-99 without lines 95-97: an expired token is reported, not renewed.
check_and_refresh_token_without_relogin(st, b) ==
    IF api = "None" THEN [st |-> Raise(st, "AttributeError"), val |-> "None"]
    ELSE
    LET s1 == IF st.token.is_none THEN initialize(st, b.init) ELSE st
    IN  IF s1.exc # "None" THEN [st |-> s1, val |-> "None"]
        ELSE [st |-> s1, val |-> FALSE]

\* The result of check_and_refresh_token: the frame, and the value returned.
check_and_refresh_token(st, b) ==
    IF api = "None" THEN [st |-> Raise(st, "AttributeError"), val |-> "None"]
    ELSE
    LET s1 == IF st.token.is_none THEN initialize(st, b.init) ELSE st
    IN  IF s1.exc # "None" THEN [st |-> s1, val |-> "None"]
        ELSE IF s1.token.is_none
        THEN [st |-> Raise(s1, "AttributeError"), val |-> "None"]
        ELSE IF TokenExpired(s1.token, now)
        THEN LET s2 == api_login(s1, <<username, password>>, b.relogin)
                 s3 == IF s2.exc # "None" THEN s2
                       ELSE BackendCall(s2, "refresh_vehicles", 0, <<s2.vehicles>>,
                                        Outcome(b.refreshOk), "None")
             IN  [st |-> s3, val |-> TRUE]
        ELSE [st |-> s1, val |-> FALSE]

(* ---------------------------------------------------------------- commands *)
\* A command that renews an expired token before it forwards the call.
Dispatch_with_relogin(st, fn, vehicle_id, args, res) ==
    IF api = "None" THEN [st |-> Raise(st, "AttributeError"), val |-> "None"]
    ELSE LET i == get_vehicle(st.vehicles, vehicle_id)
             s1 == IF st.token.is_none \/ st.token.valid_until > now THEN st
                   ELSE api_login(st, <<username, password>>,
                                  [ok |-> TRUE, valid_until |-> now + 1])
         IN  IF i = 0
             THEN [st |-> Raise(st, "VehicleNotFoundError"), val |-> "None"]
             ELSE [st |-> BackendCall(s1, fn, i, args,
                                      Outcome(res # BackendError), res),
                   val |-> res]

\* return self.api.<fn>(self.get_vehicle(vehicle_id), *args): self.api.<fn>
\* is evaluated first, then the lookup, then the call; res is what the
\* backend returns or that it raises.
Dispatch(st, fn, vehicle_id, args, res) ==
    IF api = "None" THEN [st |-> Raise(st, "AttributeError"), val |-> "None"]
    ELSE LET i == get_vehicle(st.vehicles, vehicle_id)
         IN  IF i = 0
             THEN [st |-> Raise(st, "VehicleNotFoundError"), val |-> "None"]
             ELSE [st |-> BackendCall(st, fn, i, args,
                                      Outcome(res # BackendError), res),
                   val |-> res]

start_climate(st, vehicle_id, options, res) ==
    Dispatch(st, "start_climate", vehicle_id, <<options>>, res)

stop_climate(st, vehicle_id, res) ==
    Dispatch(st, "stop_climate", vehicle_id, <<>>, res)

lock(st, vehicle_id, res) ==
    Dispatch(st, "lock_action", vehicle_id, <<LOCK>>, res)

unlock(st, vehicle_id, res) ==
    Dispatch(st, "lock_action", vehicle_id, <<UNLOCK>>, res)

start_charge(st, vehicle_id, res) ==
    Dispatch(st, "start_charge", vehicle_id, <<>>, res)

stop_charge(st, vehicle_id, res) ==
    Dispatch(st, "stop_charge", vehicle_id, <<>>, res)

\* ac and dc passed in the wrong order.
set_charge_limits_exchanged(st, vehicle_id, ac, dc, res) ==
    Dispatch(st, "set_charge_limits", vehicle_id, <<dc, ac>>, res)

set_charge_limits(st, vehicle_id, ac, dc, res) ==
    Dispatch(st, "set_charge_limits", vehicle_id, <<ac, dc>>, res)

check_action_status(st, vehicle_id, action_id, res) ==
    Dispatch(st, "check_action_status", vehicle_id, <<action_id>>, res)

open_charge_port(st, vehicle_id, res) ==
    Dispatch(st, "lock_action", vehicle_id, <<OPEN>>, res)

close_charge_port(st, vehicle_id, res) ==
    Dispatch(st, "lock_action", vehicle_id, <<CLOSE>>, res)

(* ----------------------------------------------------------------- actions *)
NoOp == [name |-> "none", args |-> <<>>]
NoRet == [exc |-> "None", val |-> "None"]

\* The caller is between two calls.
Idle == op = NoOp

\* A method is called and runs to its end: the frame becomes the state, and
\* the caller sees what it did.
Done(name, args, st, val) ==
    /\ Idle
    /\ op' = [name |-> name, args |-> args]
    /\ vehicles' = st.vehicles
    /\ token' = st.token
    /\ calls' = st.calls
    /\ ret' = [exc |-> st.exc, val |-> IF st.exc = "None" THEN val ELSE "None"]
    /\ UNCHANGED <<config, now>>

\* The constructor, lines 33-46, for the arguments c.
Construct(c) ==
    /\ region = c.region
    /\ brand = c.brand
    /\ geocode_api_enable = c.geocode_api_enable
    /\ geocode_api_use_email = c.geocode_api_use_email
    /\ api = get_implementation_by_region_brand(region, brand)
    /\ vehicles = <<>>
    /\ token = NoToken
    /\ now = 0
    /\ op = NoOp
    /\ calls = <<>>
    /\ ret = NoRet

ConstructorArguments ==
    [region : DOMAIN REGIONS, brand : DOMAIN BRANDS,
     geocode_api_enable : BOOLEAN, geocode_api_use_email : BOOLEAN]

\* A Manager for USA / Kia, with any setting of the geocode flags.
Init ==
    \E c \in ConstructorArguments :
        /\ REGIONS[c.region] = REGION_USA /\ BRANDS[c.brand] = BRAND_KIA
        /\ Construct(c)

\* A Manager for any region and brand, geocoding off.
InitAnyBackend ==
    \E c \in ConstructorArguments :
        /\ ~c.geocode_api_enable /\ ~c.geocode_api_use_email
        /\ Construct(c)

\* The caller takes the result of the call.
Return ==
    /\ ~Idle
    /\ op' = NoOp
    /\ calls' = <<>>
    /\ ret' = NoRet
    /\ UNCHANGED <<config, vehicles, token, now>>

\* Time passes between two calls.
Tick ==
    /\ Idle
    /\ now < MaxTime
    /\ now' = now + 1
    /\ UNCHANGED <<config, vehicles, token, op, calls, ret>>

\* The inputs of one initialize(): what follows a call that raises is not
\* chosen, and the registry stays within MaxRegistry.  run: whether
\* initialize() is run at all.
NoInitialize == InitializeInput(NoLogin, TRUE, <<>>, NoPass)
InitializeInputs(run) ==
    IF ~run \/ api = "None" THEN {NoInitialize}
    ELSE UNION {
        IF ~login.ok THEN {InitializeInput(login, TRUE, <<>>, NoPass)}
        ELSE {InitializeInput(login, FALSE, <<>>, NoPass)}
             \cup UNION {
                 {InitializeInput(login, TRUE, fleet, pass) :
                     pass \in PassInputs(Len(vehicles) + Len(fleet))} :
                 fleet \in Fleets(MaxRegistry - Len(vehicles))}
        : login \in LoginOutcomes }

\* The token line 94 reads, when it is reached.
ExpiredAtLine94(b) ==
    LET t == IF ~token.is_none THEN token
             ELSE IF b.login.ok THEN Token(b.login.valid_until) ELSE NoToken
    IN  api # "None" /\ ~t.is_none /\ t.valid_until <= now

Initialize ==
    \E b \in InitializeInputs(TRUE) :
        Done("initialize", <<>>, initialize(Start, b), "None")

GetVehicle ==
    \E vehicle_id \in VehicleIds :
        LET i == get_vehicle(vehicles, vehicle_id)
        IN  Done("get_vehicle", <<vehicle_id>>,
                 IF i = 0 THEN Raise(Start, "VehicleNotFoundError") ELSE Start, i)

UpdateAllVehiclesWithCachedState ==
    \E b \in PassInputs(Len(vehicles)) :
        Done("update_all_vehicles_with_cached_state", <<>>,
             update_all_vehicles_with_cached_state(Start, b), "None")

\* Called with a vehicle of the registry.
UpdateVehicleWithCachedState ==
    \E i \in 1..Len(vehicles) :
    \E b \in {c \in PassInputs(Len(vehicles)) : c.fail \in {0, i}} :
        Done("update_vehicle_with_cached_state", <<i>>,
             update_vehicle_with_cached_state(Start, i, b), "None")

CheckAndForceUpdateVehicles ==
    \E force_refresh_interval \in RefreshIntervals :
    \E b \in PassInputs(Len(vehicles)) :
        Done("check_and_force_update_vehicles", <<force_refresh_interval>>,
             check_and_force_update_vehicles(Start, force_refresh_interval, b),
             "None")

ForceRefreshAllVehiclesStates ==
    \E b \in {c \in PassInputs(Len(vehicles)) : ~c.failGeo /\ ~c.fresh} :
        Done("force_refresh_all_vehicles_states", <<>>,
             force_refresh_all_vehicles_states(Start, b), "None")

\* Called with a vehicle of the registry.
ForceRefreshVehicleState ==
    \E i \in 1..Len(vehicles) :
    \E b \in {c \in PassInputs(Len(vehicles)) :
                c.fail \in {0, i} /\ ~c.failGeo /\ ~c.fresh} :
        Done("force_refresh_vehicle_state", <<i>>,
             force_refresh_vehicle_state(Start, i, b), "None")

\* The second login and refresh_vehicles are chosen only when line 94 finds
\* the token expired.
CheckAndRefreshToken ==
    \E b \in InitializeInputs(token.is_none) :
    \E relogin \in (IF ExpiredAtLine94(b) THEN LoginOutcomes ELSE {NoLogin}) :
    \E refreshOk \in (IF relogin.ok THEN BOOLEAN ELSE {TRUE}) :
        LET r == check_and_refresh_token(
                    Start, [init |-> b, relogin |-> relogin, refreshOk |-> refreshOk])
        IN  Done("check_and_refresh_token", <<>>, r.st, r.val)

\* A command: the caller's arguments and the backend's answer are chosen.
Command(name, args, r) == Done(name, args, r.st, r.val)

StartClimate ==
    \E vehicle_id \in VehicleIds, options \in ClimateOptions, res \in BackendResults :
        Command("start_climate", <<vehicle_id, options>>,
                start_climate(Start, vehicle_id, options, res))

StopClimate ==
    \E vehicle_id \in VehicleIds, res \in BackendResults :
        Command("stop_climate", <<vehicle_id>>, stop_climate(Start, vehicle_id, res))

Lock ==
    \E vehicle_id \in VehicleIds, res \in BackendResults :
        Command("lock", <<vehicle_id>>, lock(Start, vehicle_id, res))

Unlock ==
    \E vehicle_id \in VehicleIds, res \in BackendResults :
        Command("unlock", <<vehicle_id>>, unlock(Start, vehicle_id, res))

StartCharge ==
    \E vehicle_id \in VehicleIds, res \in BackendResults :
        Command("start_charge", <<vehicle_id>>, start_charge(Start, vehicle_id, res))

StopCharge ==
    \E vehicle_id \in VehicleIds, res \in BackendResults :
        Command("stop_charge", <<vehicle_id>>, stop_charge(Start, vehicle_id, res))

SetChargeLimits ==
    \E vehicle_id \in VehicleIds, limits \in ChargeLimits, res \in BackendResults :
        Command("set_charge_limits", <<vehicle_id, limits[1], limits[2]>>,
                set_charge_limits(Start, vehicle_id, limits[1], limits[2], res))

CheckActionStatus ==
    \E vehicle_id \in VehicleIds, action_id \in ActionIds, res \in BackendResults :
        Command("check_action_status", <<vehicle_id, action_id>>,
                check_action_status(Start, vehicle_id, action_id, res))

OpenChargePort ==
    \E vehicle_id \in VehicleIds, res \in BackendResults :
        Command("open_charge_port", <<vehicle_id>>,
                open_charge_port(Start, vehicle_id, res))

CloseChargePort ==
    \E vehicle_id \in VehicleIds, res \in BackendResults :
        Command("close_charge_port", <<vehicle_id>>,
                close_charge_port(Start, vehicle_id, res))

Next ==
    \/ Return
    \/ Tick
    \/ Initialize
    \/ GetVehicle
    \/ UpdateAllVehiclesWithCachedState
    \/ UpdateVehicleWithCachedState
    \/ CheckAndForceUpdateVehicles
    \/ ForceRefreshAllVehiclesStates
    \/ ForceRefreshVehicleState
    \/ CheckAndRefreshToken
    \/ StartClimate
    \/ StopClimate
    \/ Lock
    \/ Unlock
    \/ StartCharge
    \/ StopCharge
    \/ SetChargeLimits
    \/ CheckActionStatus
    \/ OpenChargePort
    \/ CloseChargePort

Spec == Init /\ [][Next]_vars

SpecAnyBackend == InitAnyBackend /\ [][Next]_vars

(* ------------------------------------------------------------------ claims *)
\* The step is a call of the method name.
Called(name) == Idle /\ op'.name = name

\* The positions of the log cs that are calls of the backend method fn.
CallsOf(cs, fn) == {k \in DOMAIN cs : cs[k].fn = fn}

\* The method returned val.
Returned(r, val) == r.exc = "None" /\ r.val = val

\* C1: check_and_refresh_token, called when the backend has no token, runs
\* the full initialize() (login with username, password and pin, then the
\* vehicle list) and returns true; the value returned is true if and only
\* if a login was made during the call.
C1_NoTokenInitializesAndReturnsTrue ==
    [][(Called("check_and_refresh_token") /\ api # "None" /\ token.is_none
            /\ ret'.exc = "None")
        => /\ Len(calls') >= 2
           /\ calls'[1].fn = "login"
           /\ calls'[1].args = <<username, password, pin>>
           /\ calls'[2].fn = "get_vehicles"
           /\ ret'.val = TRUE
           /\ ret'.val = (CallsOf(calls', "login") # {})]_vars

\* C2: check_and_refresh_token, called when the backend holds a token with
\* valid_until <= now (equality included), calls login once, first, with
\* username and password only; when login returns it calls
\* refresh_vehicles once with the whole registry and nothing else, and when
\* that returns too it returns true; a backend call that raises ends the
\* method with that error; the registry is unchanged in every case.
C2_ExpiredTokenRelogin ==
    [][(Called("check_and_refresh_token") /\ ~token.is_none
            /\ token.valid_until <= now)
        => /\ vehicles' = vehicles
           /\ Len(calls') >= 1
           /\ calls'[1].fn = "login"
           /\ calls'[1].args = <<username, password>>
           /\ CallsOf(calls', "login") = {1}
           /\ IF calls'[1].exc # "None"
              THEN Len(calls') = 1 /\ ret'.exc = calls'[1].exc
              ELSE /\ Len(calls') = 2
                   /\ calls'[2].fn = "refresh_vehicles"
                   /\ calls'[2].args = <<vehicles>>
                   /\ IF calls'[2].exc # "None"
                      THEN ret'.exc = calls'[2].exc
                      ELSE Returned(ret', TRUE)]_vars

\* C2 witness: an expired token was renewed by login(username, password)
\* and refresh_vehicles got the two vehicles of the registry.
C2_Witness ==
    /\ op.name = "check_and_refresh_token"
    /\ Len(vehicles) = 2
    /\ Len(calls) = 2
    /\ calls[1].fn = "login" /\ calls[1].args = <<username, password>>
    /\ calls[2].fn = "refresh_vehicles" /\ calls[2].args = <<vehicles>>
    /\ Returned(ret, TRUE)
    /\ token.valid_until > now

\* C3: check_and_refresh_token, called when the backend holds a token with
\* valid_until > now, returns false, makes no backend call and leaves the
\* registry and the token as they were.
C3_ValidTokenNoEffect ==
    [][(Called("check_and_refresh_token") /\ ~token.is_none
            /\ token.valid_until > now)
        => /\ Returned(ret', FALSE)
           /\ calls' = <<>>
           /\ vehicles' = vehicles
           /\ token' = token]_vars

\* C3 witness: the call returned false with a valid token, no backend call
\* and a registry that holds vehicles.
C3_Witness ==
    /\ op.name = "check_and_refresh_token"
    /\ Returned(ret, FALSE)
    /\ calls = <<>>
    /\ ~token.is_none /\ token.valid_until > now
    /\ Len(vehicles) > 0

\* The step ran initialize() to its end, directly or from
\* check_and_refresh_token, and the method returned.
InitializeSucceeded ==
    /\ \/ Called("initialize")
       \/ Called("check_and_refresh_token") /\ token.is_none
    /\ ret'.exc = "None"

\* The log cs holds a cached-state update of the vehicle at position i,
\* followed by its geocode update when geocoding is enabled.
CachedUpdateOf(cs, i) ==
    \E k \in CallsOf(cs, "update_vehicle_with_cached_state") :
        /\ cs[k].veh = i
        /\ geocode_api_enable
            => /\ k + 1 \in DOMAIN cs
               /\ cs[k + 1].fn = "update_geocoded_location"
               /\ cs[k + 1].veh = i

\* C4: after any successful initialize() (the first or a later one, called
\* directly or through check_and_refresh_token) the registry length equals
\* the number of vehicles get_vehicles returned in that call, and every
\* vehicle of the registry got a cached-state update (and its geocode
\* update when geocoding is enabled) during the call.
C4_RegistryLengthIsFleetLength ==
    [][InitializeSucceeded
        => /\ calls'[2].fn = "get_vehicles"
           /\ Len(vehicles') = Len(calls'[2].val)
           /\ \A i \in DOMAIN vehicles' : CachedUpdateOf(calls', i)]_vars

\* C5: in every reachable state no two registry positions hold the same
\* identifier (the backend's vehicle lists repeat no identifier).
C5_IdentifiersUnique ==
    \A i, j \in DOMAIN vehicles :
        i # j => vehicles[i].id # vehicles[j].id

\* The registry positions of vs that hold the identifier vehicle_id.
Matches(vs, vehicle_id) == {i \in DOMAIN vs : vs[i].id = vehicle_id}

\* The lowest position of a non-empty set of positions.
Lowest(S) == CHOOSE i \in S : \A j \in S : i <= j

\* C6: get_vehicle(id) returns the registry entry of lowest index whose
\* identifier is id when there is one and raises VehicleNotFoundError when
\* there is none, for every registry including the empty one; it makes no
\* backend call and changes neither the registry nor a vehicle.
C6_GetVehicleFirstMatch ==
    [][Called("get_vehicle")
        => /\ vehicles' = vehicles
           /\ token' = token
           /\ calls' = <<>>
           /\ IF Matches(vehicles, op'.args[1]) = {}
              THEN ret'.exc = "VehicleNotFoundError"
              ELSE Returned(ret', Lowest(Matches(vehicles, op'.args[1])))]_vars

\* C6 witness: the identifier looked up is at positions 1 and 2, and
\* position 1 was returned.
C6_Witness ==
    /\ op.name = "get_vehicle"
    /\ Matches(vehicles, op.args[1]) = {1, 2}
    /\ Returned(ret, 1)

\* The number of calls of the backend method fn for the vehicle at
\* position i in the log cs.
CountOf(cs, fn, i) == Cardinality({k \in CallsOf(cs, fn) : cs[k].veh = i})

\* The pass of the step got to the vehicle at position i: no backend call
\* raised before it.
ReachedInPass(i) ==
    ret'.exc = "None" \/ (calls' # <<>> /\ i <= calls'[Len(calls')].veh)

\* C7: check_and_force_update_vehicles(T) decides for each vehicle on its
\* own: with elapsed = now - last_updated_at (now read at the start of the
\* call), a vehicle with elapsed > T gets exactly one force refresh and no
\* cached update, a vehicle with elapsed <= T (elapsed = T included)
\* exactly one cached update and no force refresh; this for every vehicle
\* the pass gets to.
C7_ForceRefreshOnlyWhenStale ==
    [][Called("check_and_force_update_vehicles")
        => \A i \in DOMAIN vehicles :
            ReachedInPass(i)
            => IF now - vehicles[i].last_updated_at > op'.args[1]
               THEN /\ CountOf(calls', "force_refresh_vehicle_state", i) = 1
                    /\ CountOf(calls', "update_vehicle_with_cached_state", i) = 0
               ELSE /\ CountOf(calls', "force_refresh_vehicle_state", i) = 0
                    /\ CountOf(calls', "update_vehicle_with_cached_state", i) = 1]_vars

\* C7 witness: one pass force-refreshed one vehicle and gave another, whose
\* elapsed time equals the interval, the cached update.
C7_Witness ==
    /\ op.name = "check_and_force_update_vehicles"
    /\ ret.exc = "None"
    /\ \E i, j \in DOMAIN vehicles :
        /\ CountOf(calls, "force_refresh_vehicle_state", i) = 1
        /\ CountOf(calls, "update_vehicle_with_cached_state", j) = 1
        /\ now - vehicles[j].last_updated_at = op.args[1]

\* The rows of the dispatch table.
Supported(r, b) ==
    \/ REGIONS[r] \in {REGION_CANADA, REGION_EUROPE}
    \/ REGIONS[r] = REGION_USA /\ BRANDS[b] \in {BRAND_HYUNDAI, BRAND_KIA}

\* C8: a (region, brand) pair that matches no row of the dispatch table
\* makes the construction fail with UnsupportedRegionBrandError, so that
\* every constructed Manager has a pair of the table and a backend client
\* that is present.
C8_BackendClientPresent == Supported(region, brand) /\ api # "None"

\* C9: for every supported (region, brand) pair the client is the one of
\* the dispatch table: Canada with any brand the Canada client, Europe with
\* any brand the Europe client, USA / Hyundai the Hyundai USA client,
\* USA / Kia the Kia USA client.
C9_DispatchTable ==
    /\ REGIONS[region] = REGION_CANADA => api = "KiaUvoApiCA"
    /\ REGIONS[region] = REGION_EUROPE => api = "KiaUvoApiEU"
    /\ (REGIONS[region] = REGION_USA /\ BRANDS[brand] = BRAND_HYUNDAI)
        => api = "HyundaiBlueLinkAPIUSA"
    /\ (REGIONS[region] = REGION_USA /\ BRANDS[brand] = BRAND_KIA)
        => api = "KiaUvoAPIUSA"

\* C9 witness: a Manager for Canada and a brand that no USA row names holds
\* the Canada client and has logged in with it.
C9_Witness ==
    /\ REGIONS[region] = REGION_CANADA /\ BRANDS[brand] = BRAND_GENESIS
    /\ api = "KiaUvoApiCA"
    /\ ~token.is_none
    /\ Len(vehicles) > 0

CommandNames ==
    {"start_climate", "stop_climate", "lock", "unlock", "start_charge",
     "stop_charge", "set_charge_limits", "check_action_status",
     "open_charge_port", "close_charge_port"}

\* What the command o hands to the backend after the vehicle: the caller's
\* arguments after the identifier, or the direction of the command.
PassedOn(o) ==
    CASE o.name = "lock" -> <<LOCK>>
      [] o.name = "unlock" -> <<UNLOCK>>
      [] o.name = "open_charge_port" -> <<OPEN>>
      [] o.name = "close_charge_port" -> <<CLOSE>>
      [] OTHER -> Tail(o.args)

\* C10: a command called with an identifier of the registry makes exactly
\* one backend call, for the first registry entry with that identifier and
\* with the caller's arguments unchanged (lock passes LOCK, unlock UNLOCK,
\* set_charge_limits ac and dc as given), and returns what the backend
\* returned, or raises what it raised.
C10_CommandForwarded ==
    [][(Idle /\ op'.name \in CommandNames
            /\ Matches(vehicles, op'.args[1]) # {})
        => /\ Len(calls') = 1
           /\ calls'[1].veh = Lowest(Matches(vehicles, op'.args[1]))
           /\ calls'[1].args = PassedOn(op')
           /\ ret'.exc = calls'[1].exc
           /\ ret'.val = calls'[1].val]_vars

\* C10 witness: set_charge_limits(id, 80, 90) for an identifier held twice
\* reached the backend as (first entry, 80, 90) and returned its handle.
C10_Witness ==
    /\ op.name = "set_charge_limits"
    /\ op.args[2] = 80 /\ op.args[3] = 90
    /\ Matches(vehicles, op.args[1]) = {1, 2}
    /\ Len(calls) = 1
    /\ calls[1].fn = "set_charge_limits"
    /\ calls[1].veh = 1
    /\ calls[1].args = <<80, 90>>
    /\ Returned(ret, "h1")

\* C11: a command called with an identifier that is not in the registry
\* (any command on the empty registry in particular) fails with
\* VehicleNotFoundError and makes no backend call.
C11_UnknownVehicleNotFound ==
    [][(Idle /\ op'.name \in CommandNames
            /\ Matches(vehicles, op'.args[1]) = {})
        => /\ ret'.exc = "VehicleNotFoundError"
           /\ calls' = <<>>]_vars

\* The identifiers of the registry vs, in registry order.
Ids(vs) == [i \in DOMAIN vs |-> vs[i].id]

\* The step runs initialize(), directly or from check_and_refresh_token.
InitializeRuns ==
    \/ Called("initialize")
    \/ Called("check_and_refresh_token") /\ token.is_none

\* The vehicles get_vehicles returned in the log cs (none when it was not
\* called or raised).
Returned_vehicles(cs) ==
    IF \E k \in CallsOf(cs, "get_vehicles") : cs[k].exc = "None"
    THEN cs[CHOOSE k \in CallsOf(cs, "get_vehicles") : cs[k].exc = "None"].val
    ELSE <<>>

\* C12: the membership and order of the registry change only while
\* initialize() runs (directly or from the no-token path of
\* check_and_refresh_token), and then only by the vehicles the backend
\* returned being appended after the entries already there; every other
\* step leaves the sequence of entries as it is, so that no entry is ever
\* removed or moved and the length never decreases.
C12_RegistryOnlyAppendedByInitialize ==
    [][/\ Len(vehicles') >= Len(vehicles)
       /\ IF InitializeRuns
          THEN Ids(vehicles') = Ids(vehicles) \o Ids(Returned_vehicles(calls'))
          ELSE Ids(vehicles') = Ids(vehicles)]_vars

\* C12 witness: a second initialize() has put a vehicle after the one that
\* was there.
C12_Witness ==
    /\ op.name = "initialize"
    /\ Ids(vehicles) = <<"v1", "v2">>
    /\ Ids(Returned_vehicles(calls)) = <<"v2">>
    /\ ret.exc = "None"

\* C13: when the backend login inside initialize() raises, that error
\* reaches the caller as it is, login is the only backend call made (no
\* vehicle list, no cached update, no geocode update) and the registry and
\* the token are what they were before the call.
C13_LoginFailureLeavesRegistry ==
    [][(InitializeRuns /\ calls' # <<>> /\ calls'[1].fn = "login"
            /\ calls'[1].exc # "None")
        => /\ ret'.exc = calls'[1].exc
           /\ Len(calls') = 1
           /\ vehicles' = vehicles
           /\ token' = token]_vars

\* C13 witness: initialize() on a registry that holds a vehicle ended with
\* the error of login, its only backend call.
C13_Witness ==
    /\ op.name = "initialize"
    /\ Len(calls) = 1
    /\ calls[1].fn = "login" /\ calls[1].exc = BackendError
    /\ ret.exc = BackendError
    /\ Len(vehicles) > 0

\* The methods that authenticate.
AuthenticatingNames == {"initialize", "check_and_refresh_token"}

\* C14: login is called on the backend only inside initialize and
\* check_and_refresh_token: no command and no refresh method (cached,
\* forced, bulk, check_and_force_update_vehicles) calls login or changes
\* the token, whatever the token is; a command for a vehicle of the
\* registry issued while the token is absent or expired is forwarded to the
\* backend all the same, as its only backend call.
C14_LoginOnlyWhenAuthenticating ==
    [][(Idle /\ op'.name \notin AuthenticatingNames \cup {"none"})
        => /\ CallsOf(calls', "login") = {}
           /\ token' = token
           /\ (/\ op'.name \in CommandNames
               /\ Matches(vehicles, op'.args[1]) # {}
               /\ (token.is_none \/ token.valid_until <= now))
              => /\ Len(calls') = 1
                 /\ calls'[1].fn # "login"
                 /\ calls'[1].veh \in Matches(vehicles, op'.args[1])]_vars

\* C14 witness: lock reached the backend as its only call while the token
\* was expired, and the token is still the expired one.
C14_Witness ==
    /\ op.name = "lock"
    /\ ~token.is_none /\ token.valid_until <= now
    /\ Len(calls) = 1
    /\ calls[1].fn = "lock_action"
    /\ Returned(ret, "h1")

CachedFn == "update_vehicle_with_cached_state"
GeocodeFn == "update_geocoded_location"
ForcedFn == "force_refresh_vehicle_state"

\* C15: in the backend calls of any method, a cached update that returned
\* is followed at once by the geocode update of the same vehicle, with the
\* geocode_api_use_email flag, when geocode_api_enable is true, and is not
\* followed by a geocode update when it is false; a geocode update is made
\* only when geocoding is enabled and only right after the cached update
\* of the same vehicle that returned, hence never after a forced refresh.
C15_CachedUpdateThenGeocode ==
    \A k \in DOMAIN calls :
        /\ (calls[k].fn = CachedFn /\ calls[k].exc = "None")
            => IF geocode_api_enable
               THEN /\ k + 1 \in DOMAIN calls
                    /\ calls[k + 1].fn = GeocodeFn
                    /\ calls[k + 1].veh = calls[k].veh
                    /\ calls[k + 1].args = <<geocode_api_use_email>>
               ELSE k + 1 \in DOMAIN calls => calls[k + 1].fn # GeocodeFn
        /\ calls[k].fn = GeocodeFn
            => /\ geocode_api_enable
               /\ k > 1
               /\ calls[k - 1].fn = CachedFn
               /\ calls[k - 1].exc = "None"
               /\ calls[k - 1].veh = calls[k].veh

\* C15 witness: check_and_force_update_vehicles force-refreshed the first
\* vehicle, with no geocode update, and then made the cached update of the
\* second one followed by its geocode update with the email flag set.
C15_Witness ==
    /\ op.name = "check_and_force_update_vehicles"
    /\ geocode_api_enable /\ geocode_api_use_email
    /\ Len(calls) = 3
    /\ calls[1].fn = ForcedFn /\ calls[1].veh = 1
    /\ calls[2].fn = CachedFn /\ calls[2].veh = 2
    /\ calls[3].fn = GeocodeFn /\ calls[3].veh = 2
    /\ calls[3].args = <<TRUE>>
    /\ ret.exc = "None"

\* The registry positions passed to the backend method fn, in call order.
RECURSIVE PositionsOf(_, _)
PositionsOf(cs, fn) ==
    IF cs = <<>> THEN <<>>
    ELSE IF Head(cs).fn = fn THEN <<Head(cs).veh>> \o PositionsOf(Tail(cs), fn)
    ELSE PositionsOf(Tail(cs), fn)

\* C16: update_all_vehicles_with_cached_state makes its cached updates for
\* the registry positions 1, 2, ... in that order, one per entry, and none
\* is a forced refresh; force_refresh_all_vehicles_states makes its forced
\* refreshes for the positions 1, 2, ... in that order, one per entry, and
\* none is a cached or a geocode update; when the method returns every
\* entry of the registry has had its call, an identifier that is in the
\* registry twice having had two.
C16_BulkOneModeInOrder ==
    /\ op.name = "update_all_vehicles_with_cached_state"
        => /\ PositionsOf(calls, ForcedFn) = <<>>
           /\ PositionsOf(calls, CachedFn)
                = [j \in 1..Len(PositionsOf(calls, CachedFn)) |-> j]
           /\ ret.exc = "None" => Len(PositionsOf(calls, CachedFn)) = Len(vehicles)
    /\ op.name = "force_refresh_all_vehicles_states"
        => /\ PositionsOf(calls, CachedFn) = <<>>
           /\ PositionsOf(calls, GeocodeFn) = <<>>
           /\ PositionsOf(calls, ForcedFn)
                = [j \in 1..Len(PositionsOf(calls, ForcedFn)) |-> j]
           /\ ret.exc = "None" => Len(PositionsOf(calls, ForcedFn)) = Len(vehicles)

\* C16 witness: force_refresh_all_vehicles_states returned on a registry
\* that holds the same identifier twice, after one forced refresh of each
\* of the two entries.
C16_Witness ==
    /\ op.name = "force_refresh_all_vehicles_states"
    /\ Ids(vehicles) = <<"v1", "v1">>
    /\ PositionsOf(calls, ForcedFn) = <<1, 2>>
    /\ Len(calls) = 2
    /\ ret.exc = "None"

\* C17: lock and unlock reach the backend as lock_action with LOCK and
\* UNLOCK; open_charge_port and close_charge_port never reach the backend
\* as lock_action.
C17_ChargePortNotLockAction ==
    /\ op.name \in {"lock", "unlock"}
        => \A k \in DOMAIN calls :
              /\ calls[k].fn = "lock_action"
              /\ calls[k].args = <<IF op.name = "lock" THEN LOCK ELSE UNLOCK>>
    /\ op.name \in {"open_charge_port", "close_charge_port"}
        => \A k \in DOMAIN calls : calls[k].fn # "lock_action"

\* C18: a successful login installing a token that expires later than now
\* (LoginOutcomes), whenever check_and_refresh_token has returned normally
\* the backend's token is present and not expired, and login was called at
\* most once during the call.
C18_TokenValidAfterCheck ==
    (op.name = "check_and_refresh_token" /\ ret.exc = "None")
        => /\ ~token.is_none
           /\ token.valid_until > now
           /\ Cardinality(CallsOf(calls, "login")) <= 1

\* C18 witness: check_and_refresh_token returned after the path that starts
\* with no token: login once, the vehicle list fetched, a valid token held.
C18_Witness ==
    /\ op.name = "check_and_refresh_token"
    /\ ret.exc = "None"
    /\ Cardinality(CallsOf(calls, "login")) = 1
    /\ CallsOf(calls, "get_vehicles") # {}
    /\ ~token.is_none /\ token.valid_until > now

\* The methods that run a loop over the registry.
BulkNames ==
    {"update_all_vehicles_with_cached_state", "force_refresh_all_vehicles_states",
     "check_and_force_update_vehicles", "initialize", "check_and_refresh_token"}

\* The calls that refresh the vehicle at registry position j.
RefreshesOf(cs, j) ==
    {k \in DOMAIN cs : cs[k].fn \in {CachedFn, ForcedFn} /\ cs[k].veh = j}

\* C19: in a method that loops over the registry (the refresh pass of
\* initialize included, also when check_and_refresh_token runs it), a
\* backend call for the vehicle at position i that raises is the last call
\* of the method and its error is the method's: the vehicle at i had one
\* refresh call (no retry), each position before i had exactly one refresh
\* call and it returned, no position after i had any call; and the
\* vehicles get_vehicles returned are the tail of the registry.
C19_BulkFailurePropagates ==
    op.name \in BulkNames
        => /\ \A k \in DOMAIN calls :
                (calls[k].exc # "None" /\ calls[k].veh > 0)
                    => /\ k = Len(calls)
                       /\ ret.exc = calls[k].exc
                       /\ calls[k].veh <= Len(vehicles)
                       /\ Cardinality(RefreshesOf(calls, calls[k].veh)) = 1
                       /\ \A j \in 1..(calls[k].veh - 1) :
                              /\ Cardinality(RefreshesOf(calls, j)) = 1
                              /\ \A r \in RefreshesOf(calls, j) : calls[r].exc = "None"
                       /\ \A c \in DOMAIN calls : calls[c].veh <= calls[k].veh
           /\ Len(Returned_vehicles(calls)) <= Len(vehicles)
           /\ SubSeq(Ids(vehicles),
                     Len(vehicles) - Len(Returned_vehicles(calls)) + 1,
                     Len(vehicles))
                = Ids(Returned_vehicles(calls))

\* C19 witness: initialize appended two vehicles, refreshed the first, and
\* ended with the error of the cached update of the second: both vehicles
\* are in the registry.
C19_Witness ==
    /\ op.name = "initialize"
    /\ Len(calls) >= 4
    /\ Len(Returned_vehicles(calls)) = 2
    /\ Len(vehicles) = 2
    /\ calls[Len(calls)].fn = CachedFn
    /\ calls[Len(calls)].veh = 2
    /\ calls[Len(calls)].exc = BackendError
    /\ ret.exc = BackendError
    /\ \E k \in RefreshesOf(calls, 1) : calls[k].exc = "None"

====
